---- MODULE Spec2Model ----
(***************************************************************************)
(* Model of deal.II examples/step-49/step-49.cc: the reporting routine     *)
(* mesh_info, the seven scenarios grid_1 .. grid_7 and main.               *)
(*                                                                         *)
(* Coordinates are fixed-point integers, one unit = 1e-6.  A point is a    *)
(* tuple of coordinates, a mesh is a record                                *)
(*   [dim, vertices : Seq(point),                                          *)
(*    cells : Seq([v : Seq(vertex index), f : Seq(face)])]                 *)
(* that holds the active cells only; a face is                             *)
(*   [at_boundary, boundary_indicator].                                    *)
(* Vertices are stored once and cells hold indices, so that a write to a   *)
(* vertex is seen by every cell that shares it (cell->vertex(i) returns a  *)
(* reference).                                                             *)
(***************************************************************************)
EXTENDS Integers, Sequences, FiniteSets, TLC

(* ------------------------------ bounds -------------------------------- *)
\* largest number of cells of a mesh read from untitled.msh
MaxFileCells == 2
\* largest boundary indicator a mesh file uses
MaxTag == 1
\* number of cell orderings (rotations of the cell list) tried in grid_3
MaxRot == 1
\* number of seeds of the pseudo-random source of distort_random
NumSeeds == 2

(* ------------------------- program constants -------------------------- *)
\* 1.0 in fixed point: the y coordinate tested for in grid_3
ONE == 1000000
\* 1e-5, the tolerance of the test in grid_3
TOL == 10
\* 0.5, the displacement in grid_3
OFFSET == 500000
\* inner radius 0.25 of hyper_cube_with_cylindrical_hole and of the ball
INNER_RADIUS == 250000
\* number of global refinements in grid_3
N_REFINE == 2
\* second and third argument of extrude_triangulation in grid_4
EXTRUDE_ARG == 3
EXTRUDE_HEIGHT == 2000000
\* 3.14159 and 5.0 of grid_5_transform, in units of 1e-3
PI_MILLI == 3142
FIVE == 5
\* distortion factor 0.3 of grid_7, in percent
DISTORT_PERCENT == 30
\* number of scenarios main calls
N_SCENARIOS == 7
\* boundary indicator deal.II stores on interior faces
internal_face_boundary_id == 255

(* ------------------------------ helpers ------------------------------- *)
Face(atb, bi) == [at_boundary |-> atb, boundary_indicator |-> bi]

InteriorFace == Face(FALSE, internal_face_boundary_id)

EmptyTria(d) == [dim |-> d, vertices |-> <<>>, cells |-> <<>>]

\* GeometryInfo<dim>::faces_per_cell and vertices_per_cell
faces_per_cell(d) == 2 * d

vertices_per_cell(d) == IF d = 2 THEN 4 ELSE 8

n_active_cells(t) == Len(t.cells)

\* the two vertices of face f (1..4) of a quadrilateral with vertices v:
\* faces are left, right, bottom, top; vertices are numbered
\* lower-left, lower-right, upper-left, upper-right
FaceVertices(v, f) ==
    IF f = 1 THEN {v[1], v[3]}
    ELSE IF f = 2 THEN {v[2], v[4]}
    ELSE IF f = 3 THEN {v[1], v[2]}
    ELSE {v[3], v[4]}

Abs(x) == IF x < 0 THEN -x ELSE x

Min(S) == CHOOSE x \in S : \A y \in S : x <= y

Max(S) == CHOOSE x \in S : \A y \in S : x >= y

(* --------------------------- mesh generators -------------------------- *)
\* GridGenerator::subdivided_hyper_rectangle(tria, repetitions, p1, p2):
\* nx * ny cells, vertices numbered row by row, boundary indicator 0
subdivided_hyper_rectangle(nx, ny, p1, p2) ==
    LET V(i, j) == j * (nx + 1) + i + 1
    IN [dim |-> 2,
        vertices |-> [k \in 1..((nx + 1) * (ny + 1)) |->
            LET i == (k - 1) % (nx + 1)
                j == (k - 1) \div (nx + 1)
            IN <<p1[1] + ((p2[1] - p1[1]) * i) \div nx,
                 p1[2] + ((p2[2] - p1[2]) * j) \div ny>>],
        cells |-> [c \in 1..(nx * ny) |->
            LET i == (c - 1) % nx
                j == (c - 1) \div nx
            IN [v |-> <<V(i, j), V(i + 1, j), V(i, j + 1), V(i + 1, j + 1)>>,
                f |-> <<IF i = 0 THEN Face(TRUE, 0) ELSE InteriorFace,
                        IF i = nx - 1 THEN Face(TRUE, 0) ELSE InteriorFace,
                        IF j = 0 THEN Face(TRUE, 0) ELSE InteriorFace,
                        IF j = ny - 1 THEN Face(TRUE, 0) ELSE InteriorFace>>]]]

\* GridGenerator::hyper_cube_with_cylindrical_hole(tria, inner, outer):
\* a ring of 8 cells between the square [-outer,outer]^2 and the circle of
\* radius inner; the hole has boundary indicator 1, the square 0
hyper_cube_with_cylindrical_hole(inner, outer) ==
    LET d == ((inner \div 1000) * 707107) \div 1000
        ring == << <<1, 0>>, <<1, 1>>, <<0, 1>>, <<-1, 1>>,
                   <<-1, 0>>, <<-1, -1>>, <<0, -1>>, <<1, -1>> >>
    IN [dim |-> 2,
        vertices |-> [k \in 1..16 |->
            IF k <= 8
            THEN <<ring[k][1] * outer, ring[k][2] * outer>>
            ELSE LET r == ring[k - 8]
                 IN IF r[1] # 0 /\ r[2] # 0
                    THEN <<r[1] * d, r[2] * d>>
                    ELSE <<r[1] * inner, r[2] * inner>>],
        cells |-> [k \in 1..8 |->
            LET k2 == (k % 8) + 1
            IN [v |-> <<8 + k, k, 8 + k2, k2>>,
                f |-> <<Face(TRUE, 1), Face(TRUE, 0),
                        InteriorFace, InteriorFace>>]]]

\* GridGenerator::merge_triangulations(t1, t2, result): the cells of both,
\* vertices at equal coordinates identified, boundary recomputed
merge_triangulations(t1, t2) ==
    LET n1 == Len(t1.vertices)
        fresh == SelectSeq(t2.vertices,
                           LAMBDA p : \A i \in 1..n1 : t1.vertices[i] # p)
        verts == t1.vertices \o fresh
        idx(p) == CHOOSE i \in 1..Len(verts) : verts[i] = p
        vs == [c \in 1..(Len(t1.cells) + Len(t2.cells)) |->
                 IF c <= Len(t1.cells)
                 THEN t1.cells[c].v
                 ELSE LET w == t2.cells[c - Len(t1.cells)].v
                      IN [i \in 1..4 |-> idx(t2.vertices[w[i]])]]
        shared(c, f) == \E c2 \in 1..Len(vs) : \E f2 \in 1..4 :
                           /\ c2 # c
                           /\ FaceVertices(vs[c2], f2) = FaceVertices(vs[c], f)
    IN [dim |-> 2,
        vertices |-> verts,
        cells |-> [c \in 1..Len(vs) |->
            [v |-> vs[c],
             f |-> [f \in 1..4 |->
                 IF shared(c, f) THEN InteriorFace ELSE Face(TRUE, 0)]]]]

\* the meshes GridIn::read_msh can deliver: a row of n quadrilaterals whose
\* boundary faces carry the indicators the file gives them
BoundarySlots(n) ==
    {<<c, f>> \in (1..n) \X (1..4) :
        \/ f \in {3, 4}
        \/ f = 1 /\ c = 1
        \/ f = 2 /\ c = n}

FileMesh(n, tags) ==
    LET base == subdivided_hyper_rectangle(n, 1, <<0, 0>>, <<n * ONE, ONE>>)
    IN [base EXCEPT !.cells = [c \in 1..n |->
           [v |-> base.cells[c].v,
            f |-> [f \in 1..4 |->
                IF <<c, f>> \in BoundarySlots(n)
                THEN Face(TRUE, tags[<<c, f>>])
                ELSE InteriorFace]]]]

FileMeshes ==
    UNION {{FileMesh(n, tags) : tags \in [BoundarySlots(n) -> 0..MaxTag]} :
              n \in 1..MaxFileCells}

(* ------------------------ boundary descriptors ------------------------ *)
\* integer square root, for numbers up to 3000^2
isqrt(n) == CHOOSE r \in 0..3000 : r * r <= n /\ (r + 1) * (r + 1) > n

\* HyperBallBoundary<2>(center, radius), the object built in grid_3
HyperBallBoundary(c, r) == [center |-> c, radius |-> r]

\* HyperBallBoundary::get_new_point_on_line: the midpoint m of a boundary
\* line, moved radially onto the circle (lengths taken in units of 1e-3)
get_new_point_on_line(b, m) ==
    LET dx == (m[1] - b.center[1]) \div 1000
        dy == (m[2] - b.center[2]) \div 1000
        n == isqrt(dx * dx + dy * dy)
    IN IF n = 0 THEN m
       ELSE <<b.center[1] + (b.radius * dx) \div n,
              b.center[2] + (b.radius * dy) \div n>>

(* ----------------------------- refinement ----------------------------- *)
\* one level of Triangulation::refine_global: every cell is replaced by four
\* children; a new vertex is put on every line and in every cell; children
\* inherit the boundary faces of their parent; a new vertex on a boundary
\* line whose indicator has a boundary object attached is placed by it
refine_once(t, bnd) ==
    LET nv == Len(t.vertices)
        nc == Len(t.cells)
        Key(e) == Min(e) * (nv + 1) + Max(e)
        E == UNION {{FaceVertices(t.cells[c].v, f) : f \in 1..4} : c \in 1..nc}
        Keys == {Key(e) : e \in E}
        ne == Cardinality(E)
        rank(e) == Cardinality({k \in Keys : k <= Key(e)})
        mid(c, f) == nv + rank(FaceVertices(t.cells[c].v, f))
        ctr(c) == nv + ne + c
        lineOf(k) == CHOOSE cf \in (1..nc) \X (1..4) :
                        rank(FaceVertices(t.cells[cf[1]].v, cf[2])) = k
        linePoint(k) ==
            LET cf == lineOf(k)
                e == FaceVertices(t.cells[cf[1]].v, cf[2])
                a == t.vertices[Min(e)]
                b == t.vertices[Max(e)]
                m == <<(a[1] + b[1]) \div 2, (a[2] + b[2]) \div 2>>
                fc == t.cells[cf[1]].f[cf[2]]
            IN IF fc.at_boundary /\ fc.boundary_indicator \in DOMAIN bnd
               THEN get_new_point_on_line(bnd[fc.boundary_indicator], m)
               ELSE m
        cellPoint(c) ==
            LET v == t.cells[c].v
                p(i) == t.vertices[v[i]]
            IN <<(p(1)[1] + p(2)[1] + p(3)[1] + p(4)[1]) \div 4,
                 (p(1)[2] + p(2)[2] + p(3)[2] + p(4)[2]) \div 4>>
        child(c, j) ==
            LET v == t.cells[c].v
                f == t.cells[c].f
            IN IF j = 1
               THEN [v |-> <<v[1], mid(c, 3), mid(c, 1), ctr(c)>>,
                     f |-> <<f[1], InteriorFace, f[3], InteriorFace>>]
               ELSE IF j = 2
               THEN [v |-> <<mid(c, 3), v[2], ctr(c), mid(c, 2)>>,
                     f |-> <<InteriorFace, f[2], f[3], InteriorFace>>]
               ELSE IF j = 3
               THEN [v |-> <<mid(c, 1), ctr(c), v[3], mid(c, 4)>>,
                     f |-> <<f[1], InteriorFace, InteriorFace, f[4]>>]
               ELSE [v |-> <<ctr(c), mid(c, 2), mid(c, 4), v[4]>>,
                     f |-> <<InteriorFace, f[2], InteriorFace, f[4]>>]
    IN [dim |-> 2,
        vertices |-> [k \in 1..(nv + ne + nc) |->
            IF k <= nv THEN t.vertices[k]
            ELSE IF k <= nv + ne THEN linePoint(k - nv)
            ELSE cellPoint(k - nv - ne)],
        cells |-> [k \in 1..(4 * nc) |->
            child(((k - 1) \div 4) + 1, ((k - 1) % 4) + 1)]]

RECURSIVE refine_global(_, _, _)
refine_global(t, bnd, times) ==
    IF times = 0 THEN t
    ELSE refine_global(refine_once(t, bnd), bnd, times - 1)

(* ------------------------------ extrusion ------------------------------ *)
\* GridGenerator::extrude_triangulation(input, layers, height, result), as
\* the specification describes it: `layers` layers of cells over `height`,
\* side faces inherit the 2-D boundary indicators, the two end caps get the
\* next two free indicators
extrude_triangulation(input, layers, height) ==
    LET nv == Len(input.vertices)
        nc == Len(input.cells)
        used == {input.cells[c].f[f].boundary_indicator :
                    <<c, f>> \in {cf \in (1..nc) \X (1..4) :
                        input.cells[cf[1]].f[cf[2]].at_boundary}}
        bottom == IF used = {} THEN 0 ELSE Max(used) + 1
        top == bottom + 1
    IN [dim |-> 3,
        vertices |-> [k \in 1..((layers + 1) * nv) |->
            LET s == (k - 1) \div nv
                p == input.vertices[((k - 1) % nv) + 1]
            IN <<p[1], p[2], (height * s) \div layers>>],
        cells |-> [k \in 1..(layers * nc) |->
            LET l == (k - 1) \div nc
                cl == input.cells[((k - 1) % nc) + 1]
            IN [v |-> [i \in 1..8 |->
                         IF i <= 4 THEN l * nv + cl.v[i]
                         ELSE (l + 1) * nv + cl.v[i - 4]],
                f |-> <<cl.f[1], cl.f[2], cl.f[3], cl.f[4],
                        IF l = 0 THEN Face(TRUE, bottom) ELSE InteriorFace,
                        IF l = layers - 1 THEN Face(TRUE, top)
                        ELSE InteriorFace>>]]]

(* ------------------------ coordinate transforms ------------------------ *)
\* std::sin of an angle in units of 1e-3, result in units of 1e-3
\* (Bhaskara's rational approximation on [0, pi], odd and periodic)
RECURSIVE sin_milli(_)
sin_milli(a) ==
    IF a < 0 THEN -sin_milli(-a)
    ELSE IF a >= 2 * PI_MILLI THEN sin_milli(a - 2 * PI_MILLI)
    ELSE IF a > PI_MILLI THEN -sin_milli(a - PI_MILLI)
    ELSE LET p == (a * (PI_MILLI - a)) \div 1000
             pi2 == (PI_MILLI * PI_MILLI) \div 1000
         IN (16 * p * 1000) \div (5 * pi2 - 4 * p)

\* std::tanh of a number in units of 1e-3, result in units of 1e-3
\* (Pade approximant z (15 + z^2) / (15 + 6 z^2), odd)
tanh_milli(z) ==
    LET a == Abs(z)
        z2 == (a * a) \div 1000
        r == (a * (15000 + z2)) \div (15000 + 6 * z2)
    IN IF z < 0 THEN -r ELSE r

\* mutant of grid_5_transform: the sine is added to the wrong coordinate
grid_5_transform_x(in) ==
    <<in[1] + 1000 * sin_milli(((in[1] \div 1000) * PI_MILLI) \div (FIVE * 1000)),
      in[2]>>

\* Point<2> grid_5_transform(const Point<2> &in)
grid_5_transform(in) ==
    <<in[1],
      in[2] + 1000 * sin_milli(((in[1] \div 1000) * PI_MILLI) \div (FIVE * 1000))>>

\* double Grid6Func::trans(const double y)
trans(y) == 1000 * ((tanh_milli(2 * (y \div 1000)) * 1000) \div tanh_milli(2000))

\* Point<2> Grid6Func::operator()(const Point<2> &in)
Grid6Func(in) == <<in[1], trans(in[2])>>

\* a call of the function-like argument of GridTools::transform: the
\* address of grid_5_transform (line 246) or a Grid6Func object (line 286)
call(predicate, p) ==
    IF predicate = "grid_5_transform" THEN grid_5_transform(p) ELSE Grid6Func(p)

\* GridTools::transform(predicate, tria): every vertex of the mesh is
\* replaced by the image of its own coordinates, once; nothing else changes
transform(predicate, t) ==
    [t EXCEPT !.vertices =
        [i \in 1..Len(t.vertices) |-> call(predicate, t.vertices[i])]]

(* --------------------------- random distortion ------------------------- *)
\* the vertices of t that lie on a boundary face
BoundaryVertices(t) ==
    UNION {FaceVertices(t.cells[cf[1]].v, cf[2]) :
              cf \in {x \in (1..Len(t.cells)) \X (1..4) :
                         t.cells[x[1]].f[x[2]].at_boundary}}

\* GridTools::distort_random(factor, tria, keep_boundary): every vertex
\* (every interior vertex if keep_boundary) is shifted by a pseudo-random
\* amount of at most factor times the length of the shortest line
distort_random(percent, t, keep_boundary, seed) ==
    LET len(c) == Abs(t.vertices[t.cells[c].v[2]][1]
                      - t.vertices[t.cells[c].v[1]][1])
        h == Min({len(c) : c \in 1..Len(t.cells)})
        r == (percent * h) \div 100
        fixed == IF keep_boundary THEN BoundaryVertices(t) ELSE {}
        shift(i, k) == ((seed * 7919 + i * 10007 + k * 31) % (2 * r + 1)) - r
    IN [t EXCEPT !.vertices = [i \in 1..Len(t.vertices) |->
           IF i \in fixed THEN t.vertices[i]
           ELSE <<t.vertices[i][1] + shift(i, 1),
                  t.vertices[i][2] + shift(i, 2)>>]]

(* ------------------------------- state -------------------------------- *)
VARIABLES
    untitled_msh,         \* the input file: valid, absent or malformed
    scenario,             \* the grid_k main is in (N_SCENARIOS + 1: returned)
    pc,                   \* position inside grid_k / mesh_info
    exc,                  \* an exception is propagating
    triangulation,        \* the 2-D mesh local to the running scenario
    out,                  \* Triangulation<3> out of grid_4
    boundary_description, \* the HyperBallBoundary local of grid_3
    boundary,             \* boundary objects attached to triangulation, by tag
    cell,                 \* the active_cell_iterator of the running loop
    boundary_count,       \* std::map<unsigned int, unsigned int> of mesh_info
    filename,             \* parameter filename of mesh_info
    stream,               \* std::ofstream out of mesh_info
    cout,                 \* the report mesh_info printed last
    files,                \* the output files on disk, by name
    exit_status,          \* of the process
    calls,                \* how often each scenario has called mesh_info
    order,                \* the scenarios entered so far, in order
    reported,             \* the mesh as mesh_info was given it
    before                \* the mesh before the vertex loop / the transform

vars == <<untitled_msh, scenario, pc, exc, triangulation, out, boundary_description,
          boundary, cell, boundary_count, filename, stream, cout, files,
          exit_status, calls, order, reported, before>>

\* mutant of GridFile: grid_5 passes the file name of grid_4
GridFile_copied ==
    <<"grid-1.eps", "grid-2.eps", "grid-3.eps", "grid-4.eps",
      "grid-4.eps", "grid-6.eps", "grid-7.eps">>

\* the file name each grid_k passes to mesh_info
GridFile ==
    <<"grid-1.eps", "grid-2.eps", "grid-3.eps", "grid-4.eps",
      "grid-5.eps", "grid-6.eps", "grid-7.eps">>

FileNames == {GridFile[k] : k \in 1..N_SCENARIOS}

NoBoundary == [t \in {} |-> 0]

EmptyMap == [t \in {} |-> 0]

NoReport == [dimension |-> 0, n_cells |-> 0,
             boundary_indicators |-> <<>>, written |-> ""]

Init ==
    /\ untitled_msh \in {"valid", "absent", "malformed"}
    /\ scenario = 1
    /\ pc = "enter"
    /\ exc = FALSE
    /\ triangulation = EmptyTria(2)
    /\ out = EmptyTria(3)
    /\ boundary_description = "none"
    /\ boundary = NoBoundary
    /\ cell = 0
    /\ boundary_count = EmptyMap
    /\ filename = ""
    /\ stream = "none"
    /\ cout = NoReport
    /\ files = [n \in FileNames |-> "absent"]
    /\ exit_status = "running"
    /\ calls = [k \in 1..N_SCENARIOS |-> 0]
    /\ order = <<>>
    /\ reported = EmptyTria(2)
    /\ before = EmptyTria(2)

\* the variables mesh_info owns
reportVars == <<boundary_count, filename, stream, cout, files, calls, reported>>

(* ------------------------------ mesh_info ------------------------------ *)
\* mutant of Arg: grid_4 reports the 2-D mesh it extruded
Arg_2d == triangulation

\* the mesh the running scenario passes to mesh_info
Arg == IF scenario = 4 THEN out ELSE triangulation

\* boundary_count[key]++ on a std::map: a missing key starts at 0
Increment(bc, key) ==
    IF key \in DOMAIN bc
    THEN [bc EXCEPT ![key] = @ + 1]
    ELSE [k \in DOMAIN bc \cup {key} |-> IF k = key THEN 1 ELSE bc[k]]

\* mutant of CountFaces: the test at_boundary() is missing
RECURSIVE CountFaces_every_face(_, _, _, _)
CountFaces_every_face(bc, cl, face, d) ==
    IF face > faces_per_cell(d) THEN bc
    ELSE CountFaces_every_face(Increment(bc, cl.f[face].boundary_indicator),
                               cl, face + 1, d)

\* the loop over the faces of one cell
RECURSIVE CountFaces(_, _, _, _)
CountFaces(bc, cl, face, d) ==
    IF face > faces_per_cell(d) THEN bc
    ELSE CountFaces(IF cl.f[face].at_boundary
                    THEN Increment(bc, cl.f[face].boundary_indicator)
                    ELSE bc,
                    cl, face + 1, d)

\* iteration over a std::map from begin() to end(): ascending keys
RECURSIVE PrintMap(_, _)
PrintMap(bc, keys) ==
    IF keys = {} THEN <<>>
    ELSE LET k == Min(keys)
         IN <<<<k, bc[k]>>>> \o PrintMap(bc, keys \ {k})

\* lines 54-56 and the set-up of the counting loop
mesh_info_header ==
    /\ pc = "report"
    /\ filename' = GridFile[scenario]
    /\ calls' = [calls EXCEPT ![scenario] = @ + 1]
    /\ reported' = Arg
    /\ cout' = [dimension |-> Arg.dim, n_cells |-> n_active_cells(Arg),
                boundary_indicators |-> <<>>, written |-> ""]
    /\ boundary_count' = EmptyMap
    /\ cell' = 1
    /\ pc' = "count"
    /\ UNCHANGED <<untitled_msh, scenario, exc, triangulation, out, boundary_description,
                   boundary, stream, files, exit_status, order, before>>

\* one iteration of the loop over the active cells, lines 65-72
mesh_info_count_cell ==
    /\ pc = "count"
    /\ cell <= n_active_cells(Arg)
    /\ boundary_count' = CountFaces(boundary_count, Arg.cells[cell], 1, Arg.dim)
    /\ cell' = cell + 1
    /\ UNCHANGED <<untitled_msh, scenario, pc, exc, triangulation, out, boundary_description,
                   boundary, filename, stream, cout, files, exit_status,
                   calls, order, reported, before>>

\* lines 74-81: the histogram is printed
mesh_info_print ==
    /\ pc = "count"
    /\ cell > n_active_cells(Arg)
    /\ cout' = [cout EXCEPT !.boundary_indicators =
                   PrintMap(boundary_count, DOMAIN boundary_count)]
    /\ pc' = "open"
    /\ UNCHANGED <<untitled_msh, scenario, exc, triangulation, out, boundary_description,
                   boundary, cell, boundary_count, filename, stream, files,
                   exit_status, calls, order, reported, before>>

\* mutant of mesh_info_open: the confirmation is printed when the file is
\* opened, before anything is written
mesh_info_open_confirms ==
    /\ pc = "open"
    /\ \E ok \in BOOLEAN :
          /\ stream' = IF ok THEN "good" ELSE "bad"
          /\ files' = IF ok THEN [files EXCEPT ![filename] = "empty"] ELSE files
    /\ cout' = [cout EXCEPT !.written = filename]
    /\ pc' = "write"
    /\ UNCHANGED <<untitled_msh, scenario, exc, triangulation, out,
                   boundary_description, boundary, cell, boundary_count,
                   filename, exit_status, calls, order, reported, before>>

\* line 86: std::ofstream out(filename): creates or truncates the file, or
\* leaves the stream in a failed state; it does not throw
mesh_info_open ==
    /\ pc = "open"
    /\ \E ok \in BOOLEAN :
          /\ stream' = IF ok THEN "good" ELSE "bad"
          /\ files' = IF ok THEN [files EXCEPT ![filename] = "empty"] ELSE files
    /\ pc' = "write"
    /\ UNCHANGED <<untitled_msh, scenario, exc, triangulation, out, boundary_description,
                   boundary, cell, boundary_count, filename, cout,
                   exit_status, calls, order, reported, before>>

\* GridOut::write_eps(tria, out): fails with an I/O error on a stream that
\* is not good, at entry or after a write that failed
write_eps(ok) ==
    IF stream # "good" THEN [thrown |-> TRUE, file |-> files[filename]]
    ELSE IF ok THEN [thrown |-> FALSE, file |-> "complete"]
    ELSE [thrown |-> TRUE, file |-> "partial"]

\* line 88
mesh_info_write ==
    /\ pc = "write"
    /\ \E ok \in BOOLEAN :
          LET r == write_eps(ok)
          IN /\ files' = [files EXCEPT ![filename] = r.file]
             /\ stream' = IF r.thrown THEN "bad" ELSE stream
             /\ pc' = IF r.thrown THEN "throw" ELSE "confirm"
    /\ UNCHANGED <<untitled_msh, scenario, exc, triangulation, out, boundary_description,
                   boundary, cell, boundary_count, filename, cout,
                   exit_status, calls, order, reported, before>>

\* lines 89-92: the confirmation line, then mesh_info returns to grid_k
mesh_info_confirm ==
    /\ pc = "confirm"
    /\ cout' = [cout EXCEPT !.written = filename]
    /\ stream' = "none"
    /\ pc' = IF scenario = 3 THEN "detach" ELSE "leave"
    /\ UNCHANGED <<untitled_msh, scenario, exc, triangulation, out, boundary_description,
                   boundary, cell, boundary_count, filename, files,
                   exit_status, calls, order, reported, before>>

(* ------------------------------ scenarios ------------------------------ *)
\* mutant of grid_1_read_msh: a failure of read_msh is ignored
grid_1_read_msh_unchecked ==
    /\ scenario = 1 /\ pc = "enter"
    /\ order' = Append(order, 1)
    /\ IF untitled_msh = "valid"
       THEN \E m \in FileMeshes : triangulation' = m
       ELSE triangulation' = triangulation
    /\ pc' = "report"
    /\ UNCHANGED <<untitled_msh, scenario, exc, out, boundary_description,
                   boundary, cell, exit_status, before>>
    /\ UNCHANGED <<boundary_count, filename, stream, cout, files, calls,
                   reported>>

\* grid_1, lines 104-109: the mesh is read from untitled.msh; read_msh
\* fails with an exception on a missing or malformed file
grid_1_read_msh ==
    /\ scenario = 1 /\ pc = "enter"
    /\ order' = Append(order, 1)
    /\ IF untitled_msh = "valid"
       THEN \E m \in FileMeshes :
               /\ triangulation' = m
               /\ pc' = "report"
       ELSE /\ triangulation' = triangulation
            /\ pc' = "throw"
    /\ UNCHANGED <<untitled_msh, scenario, exc, out, boundary_description, boundary, cell,
                   exit_status, before>>
    /\ UNCHANGED reportVars

\* grid_2, lines 123-135
grid_2_merge ==
    /\ scenario = 2 /\ pc = "enter"
    /\ order' = Append(order, 2)
    /\ LET tria1 == hyper_cube_with_cylindrical_hole(INNER_RADIUS, ONE)
           tria2 == subdivided_hyper_rectangle(3, 2, <<ONE, -ONE>>,
                                               <<4 * ONE, ONE>>)
       IN triangulation' = merge_triangulations(tria1, tria2)
    /\ pc' = "report"
    /\ UNCHANGED <<untitled_msh, scenario, exc, out, boundary_description, boundary, cell,
                   exit_status, before>>
    /\ UNCHANGED reportVars

\* the y coordinates the vertices on the upper edge can have: 1.0 up to
\* rounding, on both sides of the tolerance of the test
UpperEdgeYs == {ONE - TOL, ONE - TOL + 1, ONE, ONE + TOL - 1}

\* the meshes the vertex loop of grid_3 is run on: the square with a hole,
\* with the upper-edge vertices at any of UpperEdgeYs and the cells stored
\* in any of MaxRot + 1 orders
Grid3Mesh(ys, rot) ==
    LET m == hyper_cube_with_cylindrical_hole(INNER_RADIUS, ONE)
    IN [m EXCEPT
          !.vertices = [k \in 1..16 |->
              IF k \in 2..4 THEN <<m.vertices[k][1], ys[k]>>
              ELSE m.vertices[k]],
          !.cells = [c \in 1..8 |-> m.cells[((c - 1 + 3 * rot) % 8) + 1]]]

Grid3Meshes ==
    {Grid3Mesh(ys, rot) : ys \in [2..4 -> UpperEdgeYs], rot \in 0..MaxRot}

\* the test of line 175
Selected(v) == Abs(v[2] - ONE) < TOL

\* mutant of MoveVertex: the displacement is shorter than the tolerance
MoveVertex_short(vs, idx) ==
    IF Selected(vs[idx])
    THEN [vs EXCEPT ![idx] = <<vs[idx][1], vs[idx][2] + TOL \div 2>>]
    ELSE vs

\* mutant of MoveVertex: the tolerance is wider than the displacement
MoveVertex_wide(vs, idx) ==
    IF Abs(vs[idx][2] - ONE) < OFFSET + TOL
    THEN [vs EXCEPT ![idx] = <<vs[idx][1], vs[idx][2] + OFFSET>>]
    ELSE vs

\* lines 174-176 for one vertex: v is a reference into the vertex array
MoveVertex(vs, idx) ==
    IF Selected(vs[idx])
    THEN [vs EXCEPT ![idx] = <<vs[idx][1], vs[idx][2] + OFFSET>>]
    ELSE vs

\* the loop over the vertices of one cell, lines 172-177
RECURSIVE MoveCell(_, _, _)
MoveCell(vs, v, i) ==
    IF i > vertices_per_cell(2) THEN vs
    ELSE MoveCell(MoveVertex(vs, v[i]), v, i + 1)

\* grid_3, lines 164-169
grid_3_generate ==
    /\ scenario = 3 /\ pc = "enter"
    /\ order' = Append(order, 3)
    /\ \E m \in Grid3Meshes :
          /\ triangulation' = m
          /\ before' = m
    /\ cell' = 1
    /\ pc' = "move"
    /\ UNCHANGED <<untitled_msh, scenario, exc, out, boundary_description, boundary,
                   exit_status>>
    /\ UNCHANGED reportVars

\* one iteration of the loop over the active cells, lines 170-178
grid_3_move_cell ==
    /\ pc = "move"
    /\ cell <= n_active_cells(triangulation)
    /\ triangulation' = [triangulation EXCEPT !.vertices =
          MoveCell(triangulation.vertices, triangulation.cells[cell].v, 1)]
    /\ cell' = cell + 1
    /\ UNCHANGED <<untitled_msh, scenario, pc, exc, out, boundary_description, boundary,
                   exit_status, order, before>>
    /\ UNCHANGED reportVars

\* lines 187-188: the descriptor is constructed and attached to tag 1
grid_3_set_boundary ==
    /\ pc = "move"
    /\ cell > n_active_cells(triangulation)
    /\ boundary_description' = "alive"
    /\ boundary' = [t \in {1} |-> HyperBallBoundary(<<0, 0>>, INNER_RADIUS)]
    /\ pc' = "refine"
    /\ UNCHANGED <<untitled_msh, scenario, exc, triangulation, out, cell, exit_status,
                   order, before>>
    /\ UNCHANGED reportVars

\* line 189: refine_global(2); the library may fail (e.g. out of memory)
grid_3_refine_global ==
    /\ pc = "refine"
    /\ \E ok \in BOOLEAN :
          IF ok
          THEN /\ triangulation' = refine_global(triangulation, boundary, N_REFINE)
               /\ pc' = "report"
          ELSE /\ triangulation' = triangulation
               /\ pc' = "throw"
    /\ UNCHANGED <<untitled_msh, scenario, exc, out, boundary_description, boundary, cell,
                   exit_status, order, before>>
    /\ UNCHANGED reportVars

\* line 197: set_boundary(1) detaches the descriptor
grid_3_detach ==
    /\ pc = "detach"
    /\ boundary' = NoBoundary
    /\ pc' = "leave"
    /\ UNCHANGED <<untitled_msh, scenario, exc, triangulation, out, boundary_description,
                   cell, exit_status, order, before>>
    /\ UNCHANGED reportVars

\* grid_4, lines 206-208
grid_4_generate ==
    /\ scenario = 4 /\ pc = "enter"
    /\ order' = Append(order, 4)
    /\ triangulation' = hyper_cube_with_cylindrical_hole(INNER_RADIUS, ONE)
    /\ pc' = "extrude"
    /\ UNCHANGED <<untitled_msh, scenario, exc, out, boundary_description, boundary, cell,
                   exit_status, before>>
    /\ UNCHANGED reportVars

\* line 210
grid_4_extrude ==
    /\ pc = "extrude"
    /\ out' = extrude_triangulation(triangulation, EXTRUDE_ARG, EXTRUDE_HEIGHT)
    /\ pc' = "report"
    /\ UNCHANGED <<untitled_msh, scenario, exc, triangulation, boundary_description,
                   boundary, cell, exit_status, order, before>>
    /\ UNCHANGED reportVars

\* grid_5, lines 238-244
grid_5_generate ==
    /\ scenario = 5 /\ pc = "enter"
    /\ order' = Append(order, 5)
    /\ triangulation' = subdivided_hyper_rectangle(14, 2, <<0, 0>>,
                                                   <<10 * ONE, ONE>>)
    /\ pc' = "transform"
    /\ UNCHANGED <<untitled_msh, scenario, exc, out, boundary_description, boundary, cell,
                   exit_status, before>>
    /\ UNCHANGED reportVars

\* line 246
grid_5_transform_mesh ==
    /\ scenario = 5 /\ pc = "transform"
    /\ before' = triangulation
    /\ triangulation' = transform("grid_5_transform", triangulation)
    /\ pc' = "report"
    /\ UNCHANGED <<untitled_msh, scenario, exc, out, boundary_description, boundary, cell,
                   exit_status, order>>
    /\ UNCHANGED reportVars

\* grid_6, lines 279-284
grid_6_generate ==
    /\ scenario = 6 /\ pc = "enter"
    /\ order' = Append(order, 6)
    /\ triangulation' = subdivided_hyper_rectangle(40, 40, <<0, 0>>,
                                                   <<ONE, ONE>>)
    /\ pc' = "transform"
    /\ UNCHANGED <<untitled_msh, scenario, exc, out, boundary_description, boundary, cell,
                   exit_status, before>>
    /\ UNCHANGED reportVars

\* line 286
grid_6_transform_mesh ==
    /\ scenario = 6 /\ pc = "transform"
    /\ before' = triangulation
    /\ triangulation' = transform("Grid6Func", triangulation)
    /\ pc' = "report"
    /\ UNCHANGED <<untitled_msh, scenario, exc, out, boundary_description, boundary, cell,
                   exit_status, order>>
    /\ UNCHANGED reportVars

\* grid_7, lines 301-306
grid_7_generate ==
    /\ scenario = 7 /\ pc = "enter"
    /\ order' = Append(order, 7)
    /\ triangulation' = subdivided_hyper_rectangle(16, 16, <<0, 0>>,
                                                   <<ONE, ONE>>)
    /\ pc' = "distort"
    /\ UNCHANGED <<untitled_msh, scenario, exc, out, boundary_description, boundary, cell,
                   exit_status, before>>
    /\ UNCHANGED reportVars

\* line 308; the pseudo-random source is in any of NumSeeds states
grid_7_distort ==
    /\ pc = "distort"
    /\ before' = triangulation
    /\ \E seed \in 1..NumSeeds :
          triangulation' = distort_random(DISTORT_PERCENT, triangulation,
                                          TRUE, seed)
    /\ pc' = "report"
    /\ UNCHANGED <<untitled_msh, scenario, exc, out, boundary_description, boundary, cell,
                   exit_status, order>>
    /\ UNCHANGED reportVars

(* ------------------- leaving a scenario, and failures ------------------- *)
\* an exception nobody catches: whether the stack is unwound before
\* std::terminate is called is up to the implementation.  This is the case
\* where it is: the locals of mesh_info go first
unwind ==
    /\ pc = "throw"
    /\ exc' = TRUE
    /\ stream' = "none"
    /\ pc' = "leave"
    /\ UNCHANGED <<untitled_msh, scenario, triangulation, out, boundary_description,
                   boundary, cell, boundary_count, filename, cout, files,
                   exit_status, calls, order, reported, before>>

\* ~HyperBallBoundary: boundary_description was declared after
\* triangulation (line 187 after line 164) and is destroyed before it
destroy_boundary_description ==
    /\ pc = "leave"
    /\ boundary_description = "alive"
    /\ boundary_description' = "destroyed"
    /\ pc' = "leave_triangulation"
    /\ UNCHANGED <<untitled_msh, scenario, exc, triangulation, out, boundary, cell,
                   exit_status, order, before>>
    /\ UNCHANGED reportVars

\* ~Triangulation, and grid_k is left: by return to main, which calls the
\* next scenario or returns 0, or by the exception
destroy_triangulation ==
    /\ \/ pc = "leave" /\ boundary_description # "alive"
       \/ pc = "leave_triangulation"
    /\ triangulation' = EmptyTria(2)
    /\ out' = EmptyTria(3)
    /\ boundary' = NoBoundary
    /\ boundary_description' = "none"
    /\ IF exc
       THEN /\ pc' = "unwound"
            /\ UNCHANGED <<scenario, exit_status>>
       ELSE IF scenario < N_SCENARIOS
       THEN /\ pc' = "enter"
            /\ scenario' = scenario + 1
            /\ UNCHANGED exit_status
       ELSE /\ pc' = "exited"
            /\ scenario' = scenario + 1
            /\ exit_status' = "0"
    /\ UNCHANGED <<untitled_msh, exc, cell, order, before>>
    /\ UNCHANGED reportVars

\* mutant of terminate: the exception is caught in main, which goes on
\* with the next scenario
terminate_and_continue ==
    /\ pc \in {"throw", "unwound"}
    /\ scenario < N_SCENARIOS
    /\ pc' = "enter"
    /\ scenario' = scenario + 1
    /\ exc' = FALSE
    /\ triangulation' = EmptyTria(2)
    /\ out' = EmptyTria(3)
    /\ boundary' = NoBoundary
    /\ boundary_description' = "none"
    /\ UNCHANGED <<untitled_msh, cell, exit_status, order, before>>
    /\ UNCHANGED reportVars

\* std::terminate
terminate ==
    /\ pc \in {"throw", "unwound"}
    /\ pc' = "aborted"
    /\ exit_status' = "aborted"
    /\ UNCHANGED <<untitled_msh, scenario, exc, triangulation, out, boundary_description,
                   boundary, cell, order, before>>
    /\ UNCHANGED reportVars

\* int main(), lines 317-326, runs grid_1 .. grid_7 in this order
Next ==
    \/ grid_1_read_msh
    \/ grid_2_merge
    \/ grid_3_generate
    \/ grid_3_move_cell
    \/ grid_3_set_boundary
    \/ grid_3_refine_global
    \/ grid_3_detach
    \/ grid_4_generate
    \/ grid_4_extrude
    \/ grid_5_generate
    \/ grid_5_transform_mesh
    \/ grid_6_generate
    \/ grid_6_transform_mesh
    \/ grid_7_generate
    \/ grid_7_distort
    \/ mesh_info_header
    \/ mesh_info_count_cell
    \/ mesh_info_print
    \/ mesh_info_open
    \/ mesh_info_write
    \/ mesh_info_confirm
    \/ unwind
    \/ destroy_boundary_description
    \/ destroy_triangulation
    \/ terminate

Spec == Init /\ [][Next]_vars

(* ------------------------------ properties ----------------------------- *)
\* mesh_info has printed its histogram and its mesh is still in scope
Printed == pc \in {"open", "write", "confirm"}

\* the scenario has failed: an exception was thrown and not yet or no longer
\* propagating only because the process is gone
Failing == pc \in {"throw", "unwound", "aborted"} \/ exc

\* the (active cell, face) pairs of t at the boundary with indicator tag
BoundaryFaces(t, tag) ==
    {cf \in (1..Len(t.cells)) \X (1..faces_per_cell(t.dim)) :
        /\ t.cells[cf[1]].f[cf[2]].at_boundary
        /\ t.cells[cf[1]].f[cf[2]].boundary_indicator = tag}

\* every indicator any face of t stores
Indicators(t) ==
    {t.cells[cf[1]].f[cf[2]].boundary_indicator :
        cf \in (1..Len(t.cells)) \X (1..faces_per_cell(t.dim))}

\* C1: the histogram mesh_info prints lists, in ascending order of the tag,
\* exactly the tags that occur on a boundary face of an active cell, each
\* with the number of (cell, face) pairs at the boundary that carry it
C1_Histogram ==
    Printed =>
        LET h == cout.boundary_indicators
        IN /\ \A i \in 1..Len(h) :
                 /\ h[i][2] = Cardinality(BoundaryFaces(Arg, h[i][1]))
                 /\ h[i][2] > 0
           /\ \A tag \in Indicators(Arg) :
                 BoundaryFaces(Arg, tag) # {} =>
                     \E i \in 1..Len(h) : h[i][1] = tag
           /\ \A i \in 1..(Len(h) - 1) : h[i][1] < h[i + 1][1]

\* a mesh with interior faces whose first boundary face carries a larger tag
\* than a later one, with a tag that occurs more than once
C1_Witness ==
    /\ Printed
    /\ Len(cout.boundary_indicators) >= 2
    /\ \E i \in 1..Len(cout.boundary_indicators) :
          cout.boundary_indicators[i][2] >= 2
    /\ Arg.cells[1].f[1].at_boundary
    /\ Arg.cells[1].f[1].boundary_indicator > cout.boundary_indicators[1][1]
    /\ \E c \in 1..Len(Arg.cells) : ~Arg.cells[c].f[2].at_boundary

\* the vertex loop of grid_3 has visited every cell
LoopDone ==
    /\ scenario = 3
    /\ \/ pc = "move" /\ cell > n_active_cells(triangulation)
       \/ pc = "refine"

\* C2: when the vertex loop of grid_3 has finished, no vertex of the mesh
\* satisfies |y - 1.0| < 1e-5
C2_NoneSelectedAfterLoop ==
    LoopDone =>
        \A i \in 1..Len(triangulation.vertices) :
            ~Selected(triangulation.vertices[i])

\* the loop has finished on a mesh that had selected vertices
C2_Witness ==
    /\ LoopDone
    /\ Cardinality({i \in 1..Len(before.vertices) :
                       Selected(before.vertices[i])}) >= 2

\* C3: the descriptor of grid_3 is not destroyed while it is attached to
\* tag 1, and the mesh is refined only with the descriptor alive and attached
C3_DetachedBeforeDestroyed ==
    /\ boundary_description = "destroyed" => 1 \notin DOMAIN boundary
    /\ pc = "refine" => boundary_description = "alive" /\ 1 \in DOMAIN boundary

\* C4 as stated: when grid_k fails no later scenario is entered, there is
\* no file grid-k.eps, and the scenarios before k have written their files
C4_NoFileForFailingScenario ==
    Failing =>
        /\ order = [i \in 1..scenario |-> i]
        /\ files[GridFile[scenario]] = "absent"
        /\ \A j \in 1..(scenario - 1) : files[GridFile[j]] = "complete"
        /\ \A j \in (scenario + 1)..N_SCENARIOS : files[GridFile[j]] = "absent"

\* C4 amended: when grid_k fails no later scenario is entered, the file
\* grid-k.eps is absent or, after a write that failed, incomplete, its
\* confirmation line is not printed, and the scenarios before k have
\* written their files
C4_NoCompleteFileForFailingScenario ==
    Failing =>
        /\ order = [i \in 1..scenario |-> i]
        /\ files[GridFile[scenario]] \in {"absent", "partial"}
        /\ cout.written # GridFile[scenario]
        /\ \A j \in 1..(scenario - 1) : files[GridFile[j]] = "complete"
        /\ \A j \in (scenario + 1)..N_SCENARIOS : files[GridFile[j]] = "absent"

\* grid_5 has failed in write_eps after its file was opened, and the
\* process is gone
C4_Witness ==
    /\ pc = "aborted"
    /\ exit_status = "aborted"
    /\ scenario = 5
    /\ files[GridFile[5]] = "partial"
    /\ files[GridFile[4]] = "complete"

\* C5: mesh_info gets past write_eps only with a stream that could be
\* opened, so the line " written to <filename>" is printed only for a file
\* that was opened and written
C5_NoConfirmationWithoutFile ==
    /\ pc = "confirm" => stream = "good"
    /\ cout.written # "" => files[cout.written] = "complete"

\* the file of mesh_info could not be opened and mesh_info has thrown
C5_Witness ==
    /\ pc = "throw"
    /\ stream = "bad"
    /\ calls[scenario] = 1
    /\ files[filename] = "absent"
    /\ cout.written = ""

\* C6: with untitled.msh absent or malformed, grid_1 fails before it
\* reports: mesh_info is never called, grid-1.eps is not written, grid_1 is
\* not entered again and no other scenario is
C6_LoadFailureIsFatal ==
    untitled_msh # "valid" =>
        /\ \A k \in 1..N_SCENARIOS : calls[k] = 0
        /\ files[GridFile[1]] = "absent"
        /\ scenario = 1
        /\ Len(order) <= 1
        /\ pc \in {"enter", "throw", "leave", "unwound", "aborted"}

\* the file is absent and the process is gone
C6_Witness ==
    /\ untitled_msh = "absent"
    /\ pc = "aborted"
    /\ order = <<1>>

\* mesh_info has been called by the running scenario and has not failed
Reporting == pc \in {"count", "open", "write", "confirm", "detach"}
                 \/ (pc \in {"leave", "leave_triangulation"} /\ ~exc)

\* C7: a run without failure enters grid_1 .. grid_7 once each in this
\* order, each calls mesh_info once with grid-N.eps, on the mesh as it stays
\* until the scenario is left, the seven files are distinct and written, and
\* the exit status is 0
C7_SevenScenariosInOrder ==
    /\ \A k \in 1..N_SCENARIOS : calls[k] <= 1
    /\ \A i \in 1..Len(order) : order[i] = i
    /\ Reporting =>
          /\ calls[scenario] = 1
          /\ filename = GridFile[scenario]
          /\ Arg = reported
    /\ pc = "exited" =>
          /\ order = [i \in 1..N_SCENARIOS |-> i]
          /\ \A k \in 1..N_SCENARIOS : calls[k] = 1
          /\ Cardinality(FileNames) = N_SCENARIOS
          /\ \A n \in FileNames : files[n] = "complete"
          /\ exit_status = "0"

\* main has returned
C7_Witness ==
    /\ pc = "exited"
    /\ exit_status = "0"
    /\ scenario = N_SCENARIOS + 1

\* the image of p under the transform of the running scenario
Transformed(p) == IF scenario = 5 THEN grid_5_transform(p) ELSE Grid6Func(p)

\* grid_5 or grid_6 has transformed its mesh
AfterTransform == scenario \in {5, 6} /\ pc \in {"report", "count", "open"}

\* C8: after GridTools::transform in grid_5 and grid_6 the cells, their
\* vertex indices and their boundary indicators are as before, every vertex
\* is the image of its own old coordinates, and its x coordinate is as before
C8_TransformMovesVerticesOnly ==
    AfterTransform =>
        /\ triangulation.cells = before.cells
        /\ n_active_cells(triangulation) = n_active_cells(before)
        /\ Len(triangulation.vertices) = Len(before.vertices)
        /\ \A i \in 1..Len(before.vertices) :
              /\ triangulation.vertices[i] = Transformed(before.vertices[i])
              /\ triangulation.vertices[i][1] = before.vertices[i][1]

\* grid_6 has moved a vertex that four cells share
C8_Witness ==
    /\ scenario = 6
    /\ pc = "report"
    /\ \E i \in 1..Len(before.vertices) :
          /\ triangulation.vertices[i][2] # before.vertices[i][2]
          /\ Cardinality({c \in 1..Len(triangulation.cells) :
                \E k \in 1..4 : triangulation.cells[c].v[k] = i}) = 4

C10_MovedExactlyOnce ==
    (scenario = 3 /\ pc \in {"move", "refine"}) =>
        \A i \in 1..Len(before.vertices) :
            LET old == before.vertices[i]
                new == triangulation.vertices[i]
            IN /\ new[1] = old[1]
               /\ new[2] \in {old[2], old[2] + OFFSET}
               /\ ~Selected(old) => new = old
               /\ (LoopDone /\ Selected(old)) => new[2] = old[2] + OFFSET

\* the loop has finished, it has moved a vertex that two cells have, once,
\* and has left alone a vertex at the edge of the tolerance
C10_Witness ==
    /\ LoopDone
    /\ \E i \in 1..Len(before.vertices) :
          /\ Selected(before.vertices[i])
          /\ triangulation.vertices[i][2] = before.vertices[i][2] + OFFSET
          /\ Cardinality({c \in 1..Len(triangulation.cells) :
                \E k \in 1..4 : triangulation.cells[c].v[k] = i}) >= 2
    /\ \E i \in 1..Len(before.vertices) :
          /\ before.vertices[i][2] = ONE - TOL
          /\ triangulation.vertices[i] = before.vertices[i]

====
